---- MODULE Spec2Model ----
(***************************************************************************)
(* Model of the Reversi UDP server (src/server/reversi_server.py): the     *)
(* board engine, the heuristic move policy, the session registry, the      *)
(* lobby manager, the packet dispatcher and the tick scheduler.            *)
(*                                                                         *)
(* Time.  The program reads the wall clock (current_time()) and uses it    *)
(* in three ways only: ts - p.last_active > PLAYER_IDLE_TIMEOUT,           *)
(* ts >= lb._cpu_action_due and int(ts) % 5 == 0.  The model keeps the     *)
(* clock modulo 5 s (now), each player's ts - last_active (idle) and each  *)
(* lobby's _cpu_action_due - ts (the remaining think time), all in         *)
(* milliseconds; the action Clock lets time pass.                          *)
(***************************************************************************)
EXTENDS Integers, Sequences, FiniteSets, TLC

\* Python None: an integer no id, winner or time equals; an address no client
\* has; the empty tuple where the value is a tuple
None == -9
NoAddr == "none"
NoTuple == <<>>
\* the bot markers "CPU" and "AI" of a slot (player ids are positive)
CPU == -1
AI == -2

\* Op(v) with the local v computed once, as an assignment to a local does
Bind(v, Op(_)) == CHOOSE r \in {Op(x) : x \in {v}} : TRUE

\* ------------------------------------------------------------------------
\* Configuration (reversi_server.py, lines 15-24), times in milliseconds
PLAYER_IDLE_TIMEOUT == 180
CPU_THINK_DELAY_MS == <<250, 700>>
REAP_PERIOD == 5
MAX_CHAT_HISTORY == 50
MAX_CHAT_MESSAGE_LENGTH == 60000

\* MessageType
HELLO == 1
LIST_LOBBIES == 2
CREATE_LOBBY == 3
JOIN_LOBBY == 4
LEAVE == 5
PLACE == 6
PING == 7
INSPECT == 8
CHAT == 9

\* GameMode
PLAYER_VS_PLAYER == 0
PLAYER_VS_CPU == 1
PLAYER_VS_AI == 2

\* GameStatus
WAITING == 0
PLAYING == 1
FINISHED == 2

\* ErrorCode
BAD_REQUEST == 1
NOT_IN_LOBBY == 5
GAME_NOT_ACTIVE == 6
NOT_YOUR_TURN == 7
ILLEGAL_MOVE == 8
APPLY_FAILED == 9
UNKNOWN_MESSAGE_TYPE == 10
SPECTATOR_MOVE_NOT_ALLOWED == 11
LOBBY_NOT_FOUND == 3
MESSAGE_TOO_LONG == 12

\* Cell values of a board
EMPTY == 255
TIE == -1

\* ------------------------------------------------------------------------
\* Reversi logic
SIZE == 8

DIRECTIONS ==
  << <<-1, -1>>, <<-1, 0>>, <<-1, 1>>,
     <<0, -1>>, <<0, 1>>,
     <<1, -1>>, <<1, 0>>, <<1, 1>> >>

create_initial_board ==
  [y \in 0..(SIZE - 1) |-> [x \in 0..(SIZE - 1) |->
     IF (x = 3 /\ y = 3) \/ (x = 4 /\ y = 4) THEN 0
     ELSE IF (x = 4 /\ y = 3) \/ (x = 3 /\ y = 4) THEN 1
     ELSE EMPTY]]

is_in_bounds(x, y) == 0 <= x /\ x < SIZE /\ 0 <= y /\ y < SIZE

\* The while loop of find_legal_moves / apply_player_move: the number of
\* consecutive opponent cells met from (cx, cy) in direction (dx, dy).
RECURSIVE RunLength(_, _, _, _, _, _)
RunLength(board, opponent, cx, cy, dx, dy) ==
  IF is_in_bounds(cx, cy) /\ board[cy][cx] = opponent
  THEN 1 + RunLength(board, opponent, cx + dx, cy + dy, dx, dy)
  ELSE 0

\* The cells one direction flips: the run of opponent cells, when it is not
\* empty and is closed by a cell of the player.
DirectionFlips(board, player, x, y, d) ==
  LET dx == DIRECTIONS[d][1]
      dy == DIRECTIONS[d][2]
      n == RunLength(board, 1 - player, x + dx, y + dy, dx, dy)
      ex == x + dx * (n + 1)
      ey == y + dy * (n + 1)
  IN IF n > 0 /\ is_in_bounds(ex, ey) /\ board[ey][ex] = player
     THEN {<<x + dx * k, y + dy * k>> : k \in 1..n}
     ELSE {}

\* the scan without the closing cell of the player
IsLegalCell_open_run(board, player, x, y) ==
  /\ board[y][x] = EMPTY
  /\ \E d \in 1..Len(DIRECTIONS) :
       RunLength(board, 1 - player, x + DIRECTIONS[d][1], y + DIRECTIONS[d][2],
                 DIRECTIONS[d][1], DIRECTIONS[d][2]) > 0

\* the body of the loops over y and x of find_legal_moves: (x, y) is added
IsLegalCell(board, player, x, y) ==
  /\ board[y][x] = EMPTY
  /\ \E d \in 1..Len(DIRECTIONS) : DirectionFlips(board, player, x, y, d) # {}

\* The order sorted(moves) gives the cells: tuples (x, y) in ascending tuple
\* order, x first then y.
CellOrder == [i \in 1..(SIZE * SIZE) |-> <<(i - 1) \div SIZE, (i - 1) % SIZE>>]

\* the legal cells in the order the loops over y and x find them
find_legal_moves_row_major(board, player) ==
  SelectSeq([i \in 1..(SIZE * SIZE) |-> <<(i - 1) % SIZE, (i - 1) \div SIZE>>],
            LAMBDA c : IsLegalCell(board, player, c[1], c[2]))

\* the set of legal cells (a cell is added once), sorted
find_legal_moves(board, player) ==
  SelectSeq(CellOrder, LAMBDA c : IsLegalCell(board, player, c[1], c[2]))

\* find_legal_moves(board, player) is not empty: some cell is legal
has_legal_move(board, player) ==
  \E x \in 0..(SIZE - 1), y \in 0..(SIZE - 1) : IsLegalCell(board, player, x, y)

\* (x, y) in find_legal_moves(board, player), for any two bytes x and y
is_legal_move(board, player, x, y) ==
  is_in_bounds(x, y) /\ IsLegalCell(board, player, x, y)

\* apply_player_move without "board[y][x] = player": the flips alone
apply_player_move_flips_only(board, player, x, y) ==
  IF ~is_in_bounds(x, y) \/ board[y][x] # EMPTY
  THEN [ok |-> FALSE, board |-> board, changed |-> 0]
  ELSE Bind(UNION {DirectionFlips(board, player, x, y, d) :
                     d \in 1..Len(DIRECTIONS)},
            LAMBDA flips :
              IF flips = {}
              THEN [ok |-> FALSE, board |-> board, changed |-> 0]
              ELSE [ok |-> TRUE,
                    board |-> [cy \in 0..(SIZE - 1) |-> [cx \in 0..(SIZE - 1) |->
                                 IF <<cx, cy>> \in flips THEN player ELSE board[cy][cx]]],
                    changed |-> 1 + Cardinality(flips)])

\* apply_player_move: [ok, board, changed]
apply_player_move(board, player, x, y) ==
  IF ~is_in_bounds(x, y) \/ board[y][x] # EMPTY
  THEN [ok |-> FALSE, board |-> board, changed |-> 0]
  ELSE Bind(UNION {DirectionFlips(board, player, x, y, d) :
                     d \in 1..Len(DIRECTIONS)},
            LAMBDA flips :
              IF flips = {}
              THEN [ok |-> FALSE, board |-> board, changed |-> 0]
              ELSE [ok |-> TRUE,
                    board |-> [cy \in 0..(SIZE - 1) |-> [cx \in 0..(SIZE - 1) |->
                                 IF (cx = x /\ cy = y) \/ <<cx, cy>> \in flips
                                 THEN player ELSE board[cy][cx]]],
                    changed |-> 1 + Cardinality(flips)])

\* count_pieces: <<pieces of side 0, pieces of side 1>>
count_pieces(board) ==
  LET cells == (0..(SIZE - 1)) \X (0..(SIZE - 1))
  IN <<Cardinality({c \in cells : board[c[2]][c[1]] = 0}),
       Cardinality({c \in cells : board[c[2]][c[1]] = 1})>>

\* cpu_select_move: the loop over the sorted moves keeps the first move of
\* the highest score (score > best_score is strict).
CpuScore(board, cpu_player, mv) ==
  LET corner == mv \in {<<0, 0>>, <<0, 7>>, <<7, 0>>, <<7, 7>>}
      edge == mv[1] \in {0, 7} \/ mv[2] \in {0, 7}
  IN Bind(apply_player_move(board, cpu_player, mv[1], mv[2]),
          LAMBDA r :
            IF ~r.ok THEN -1
            ELSE r.changed + (IF corner THEN 100 ELSE IF edge THEN 10 ELSE 0))

RECURSIVE CpuBest(_, _, _, _, _, _)
CpuBest(board, cpu_player, moves, i, best_score, best_move) ==
  IF i > Len(moves) THEN best_move
  ELSE Bind(CpuScore(board, cpu_player, moves[i]),
            LAMBDA s :
              IF s > best_score
              THEN CpuBest(board, cpu_player, moves, i + 1, s, moves[i])
              ELSE CpuBest(board, cpu_player, moves, i + 1, best_score, best_move))

cpu_select_move(board, cpu_player) ==
  Bind(find_legal_moves(board, cpu_player),
       LAMBDA moves :
         IF moves = <<>> THEN NoTuple
         ELSE CpuBest(board, cpu_player, moves, 1, -1, moves[1]))

\* check_game_over looking at the side to move only
check_game_over_one_side(board, current_turn) ==
  ~has_legal_move(board, current_turn)

check_game_over(board, current_turn) ==
  IF has_legal_move(board, current_turn) THEN FALSE
  ELSE IF has_legal_move(board, 1 - current_turn) THEN FALSE
  ELSE TRUE

\* REVERSI_AI_Q_TABLE is None unless a pickled table lies beside the program
\* (lines 24, 727-729); without it ai_select_move is cpu_select_move.
ai_select_move(board, ai_player) == cpu_select_move(board, ai_player)

\* ------------------------------------------------------------------------
\* Bounds of the model
MaxPlayerId == 2
MaxLobbyId == 2

PlayerIds == 1..MaxPlayerId
LobbyIds == 1..MaxLobbyId
Addrs == {"a1", "a2"}
Modes == {PLAYER_VS_PLAYER, PLAYER_VS_CPU, PLAYER_VS_AI}
\* the payload of a PLACE datagram too short to hold x and y
Truncated == NoTuple
\* PLACE payloads (x, y): an opening cell of side 0, an empty cell that is not
\* one, an occupied cell and an off-board cell
PlaceInputs == {<<2, 4>>, <<2, 3>>, <<3, 3>>, <<8, 0>>}
\* the inputs of Spec: one client, who may hold several lobbies
SoloAddrs == {"a1"}
SoloInputs == {<<3, 3>>, Truncated}
\* the inputs of SpecPair: two clients and one lobby id
PairModes == {PLAYER_VS_PLAYER, PLAYER_VS_CPU}
PairLobbyIds == {1}
PairInputs == {<<2, 4>>, <<3, 3>>}
\* the inputs of SpecSend: the boards, and the slots as (players, addresses)
SendBoards ==
  {create_initial_board,
   apply_player_move(create_initial_board, 1, 2, 3).board,
   apply_player_move(create_initial_board, 0, 2, 4).board}
SendSlots ==
  {<<<<1, CPU>>, <<"a1", NoAddr>>>>, <<<<1, 2>>, <<"a1", "a2">>>>,
   <<<<CPU>>, <<NoAddr>>>>}
SendStatuses == {WAITING, PLAYING, FINISHED}
\* the inputs of SpecGame
GameAddrs == {"a1"}
GameModes == {PLAYER_VS_CPU}
GameLobbyIds == {1}
GameInputs == {<<0, 0>>, <<1, 1>>, <<2, 2>>, <<2, 4>>, <<3, 1>>, <<3, 5>>, <<5, 3>>,
               <<7, 3>>}
\* message kinds the dispatcher has no branch for
UnroutedKinds == {JOIN_LOBBY, PING}
\* random.randint(*CPU_THINK_DELAY_MS): the two ends of the range
ThinkDelays == {CPU_THINK_DELAY_MS[1], CPU_THINK_DELAY_MS[2]}
\* amounts of time that pass between two steps, in ms
ClockSteps == {182500}

TimeoutMs == PLAYER_IDLE_TIMEOUT * 1000
IdleCap == TimeoutMs + 1
ReapMs == REAP_PERIOD * 1000

\* ------------------------------------------------------------------------
\* The locks (lines 356-357) and the threads that take them: the workers of
\* the executor (line 359), each running _handle_packet for one datagram, and
\* the tick thread (line 366).
PLAYER_LOCK == "PLAYER_LOCK"
LOBBY_LOCK == "LOBBY_LOCK"

\* the executor has 16 workers; the model has MaxWorkers of them
MaxWorkers == 2
Workers == 1..MaxWorkers
TickTask == 0
Tasks == Workers \cup {TickTask}

\* the dead players with a lobby one pass of the reaper finds, at most
MaxDead == 2

Acquire(k) == <<"acquire", k>>
Release(k) == <<"release", k>>
\* with k: body
With(k, body) == <<Acquire(k)>> \o body \o <<Release(k)>>

\* an RLock nobody owns
Unlocked == [owner |-> None, count |-> 0]

\* the handlers' lock operations, _handle_leave taking the registry lock
\* inside the lobby lock
handler_locks_registry_inside(kind) ==
  IF kind = LEAVE THEN {With(LOBBY_LOCK, With(PLAYER_LOCK, <<>>))}
  ELSE IF kind \in {CREATE_LOBBY, PLACE, CHAT} THEN {With(LOBBY_LOCK, <<>>)}
  ELSE {<<>>}

\* The lock operations of the handler of a datagram of kind data[0] = kind,
\* one sequence for each path through the handler.
handler_locks(kind) ==
  IF kind = CREATE_LOBBY
  THEN {<<>>,                                        \* data[1] raises
        With(LOBBY_LOCK, With(LOBBY_LOCK, <<>>))}    \* _maybe_start inside
  ELSE IF kind = CHAT
  THEN {<<>>,                                        \* NOT_IN_LOBBY
        With(LOBBY_LOCK, <<>>)}
  ELSE IF kind \in {PLACE, LEAVE} THEN {With(LOBBY_LOCK, <<>>)}
  ELSE {<<>>}                                        \* HELLO, unrouted kinds

\* _handle_packet: _get_or_create_player, then the handler
packet_locks(kind) ==
  {With(PLAYER_LOCK, <<>>) \o h : h \in handler_locks(kind)}

\* the reaper's loop over n dead players in a lobby: _handle_leave for each
RECURSIVE leave_each(_)
leave_each(n) == IF n = 0 THEN <<>> ELSE With(LOBBY_LOCK, <<>>) \o leave_each(n - 1)

\* _tick: the bot loop, then, at reap time, the idle players
tick_locks ==
  {With(LOBBY_LOCK, <<>>)}
    \cup {With(LOBBY_LOCK, <<>>) \o With(PLAYER_LOCK, leave_each(n)) : n \in 0..MaxDead}

VARIABLES
  players_by_address,  \* dict: address -> Player record
  players_by_id,       \* dict: player id -> address of the Player object
  lobbies,             \* dict: lobby id -> Lobby record
  now,                 \* current_time() modulo 5 s, in ms
  outbox,              \* the datagrams the last step sent
  event,               \* what the last step was: the datagram handled, a tick
  pc,                  \* task -> the lock operations its running call has left
  held                 \* lock -> the task that owns the RLock, and how many times

\* the program's two locks and what the threads do with them
lockvars == <<pc, held>>

vars == <<players_by_address, players_by_id, lobbies, now, outbox, event, pc, held>>

\* the step handled a datagram of kind data[0] = kind from address a; arg is
\* the (x, y) of a PLACE
Received(kind, a) == [op |-> "packet", kind |-> kind, from |-> a, arg |-> NoTuple]
Placed(a, cell) == [op |-> "packet", kind |-> PLACE, from |-> a, arg |-> cell]
\* the step handled the CHAT datagram d of address a carrying the text n
Chatted(a, d, n) ==
  [op |-> "packet", kind |-> CHAT, from |-> a, arg |-> <<d.size, d.msg_len, n>>]
Ticked == [op |-> "tick", kind |-> 0, from |-> NoAddr, arg |-> NoTuple]
Elapsed == [op |-> "clock", kind |-> 0, from |-> NoAddr, arg |-> NoTuple]
Started == [op |-> "start", kind |-> 0, from |-> NoAddr, arg |-> NoTuple]
\* the step was a call of _send_state on lobby l
Attempted(l) == [op |-> "send", kind |-> 0, from |-> NoAddr, arg |-> <<l>>]
\* the step changed the game state of a lobby
Changed == [op |-> "change", kind |-> 0, from |-> NoAddr, arg |-> NoTuple]

\* ------------------------------------------------------------------------
\* dicts and lists
Put(d, k, v) == [x \in (DOMAIN d) \cup {k} |-> IF x = k THEN v ELSE d[x]]
Del(d, k) == [x \in (DOMAIN d) \ {k} |-> d[x]]
EmptyDict == [x \in {} |-> 0]

Range(seq) == {seq[i] : i \in 1..Len(seq)}

\* list.index(v), 0-based; -1 for ValueError
Index(seq, v) ==
  IF v \in Range(seq)
  THEN (CHOOSE i \in 1..Len(seq) : seq[i] = v /\ \A j \in 1..(i - 1) : seq[j] # v) - 1
  ELSE -1

\* list.pop(idx), idx 0-based
Pop(seq, idx) == [i \in 1..(Len(seq) - 1) |-> IF i <= idx THEN seq[i] ELSE seq[i + 1]]

\* ------------------------------------------------------------------------
\* Data classes
Player(addr, pid) == [address |-> addr, player_id |-> pid, idle |-> 0, lobby_id |-> None]

Lobby(lobby_id, mode) ==
  [lobby_id |-> lobby_id, mode |-> mode, started |-> FALSE, players |-> <<>>,
   player_addresses |-> <<>>, board |-> create_initial_board,
   turn_index |-> 0, status |-> WAITING, winner |-> None,
   chat_history |-> <<>>, cpu_action_due |-> None, last_hash |-> NoTuple]

state_hash(lb) == <<lb.status, lb.turn_index, lb.board>>

ErrorMsg(addr, code) == [kind |-> "ERROR", to |-> addr, code |-> code]

\* _send_state without "lb._last_hash = h"
send_state_stale(lb) ==
  LET h == state_hash(lb)
  IN IF h = lb.last_hash THEN [lb |-> lb, out |-> {}]
     ELSE [lb |-> lb,
           out |-> {[kind |-> "GAME_STATE", to |-> lb.player_addresses[i],
                     lobby |-> lb.lobby_id, status |-> lb.status,
                     turn |-> lb.turn_index] :
                    i \in {j \in 1..Len(lb.player_addresses) :
                             lb.player_addresses[j] # NoAddr}}]

\* _send_state: [lb, out]
send_state(lb) ==
  LET h == state_hash(lb)
  IN IF h = lb.last_hash THEN [lb |-> lb, out |-> {}]
     ELSE [lb |-> [lb EXCEPT !.last_hash = h],
           out |-> {[kind |-> "GAME_STATE", to |-> lb.player_addresses[i],
                     lobby |-> lb.lobby_id, status |-> lb.status,
                     turn |-> lb.turn_index] :
                    i \in {j \in 1..Len(lb.player_addresses) :
                             lb.player_addresses[j] # NoAddr}}]

\* _maybe_start without the bot fill
maybe_start_no_fill(lb, first) ==
  IF lb.started THEN [lb |-> lb, out |-> {}]
  ELSE IF Len(lb.players) = 2
       THEN send_state([lb EXCEPT !.started = TRUE, !.status = PLAYING,
                                  !.turn_index = first])
       ELSE [lb |-> lb, out |-> {}]

\* _maybe_start on a live lobby; first is random.randint(0, 1): [lb, out]
maybe_start(lb, first) ==
  IF lb.started THEN [lb |-> lb, out |-> {}]
  ELSE LET bot == lb.mode \in {PLAYER_VS_CPU, PLAYER_VS_AI} /\ Len(lb.players) = 1
           l1 == IF bot
                 THEN [lb EXCEPT
                         !.players = Append(@, IF lb.mode = PLAYER_VS_AI THEN AI ELSE CPU),
                         !.player_addresses = Append(@, NoAddr)]
                 ELSE lb
       IN IF Len(l1.players) = 2
          THEN send_state([l1 EXCEPT !.started = TRUE, !.status = PLAYING,
                                     !.turn_index = first])
          ELSE [lb |-> l1, out |-> {}]

\* the turn switch that ends the game as soon as the next side cannot move
advance_turn_no_skip(lb) ==
  LET t == 1 - lb.turn_index
      l1 == [lb EXCEPT !.turn_index = t]
  IN IF has_legal_move(l1.board, t) THEN l1
     ELSE LET p == count_pieces(l1.board)
          IN [l1 EXCEPT !.status = FINISHED,
                        !.winner = IF p[1] > p[2] THEN 0
                                   ELSE IF p[2] > p[1] THEN 1 ELSE TIE]

\* "Switch turn" alone, without the look at the next side's moves
advance_turn_switch_only(lb) == [lb EXCEPT !.turn_index = 1 - @]

\* "Switch turn" and what follows it in _handle_place and in _tick
advance_turn(lb) ==
  LET t == 1 - lb.turn_index
      l1 == [lb EXCEPT !.turn_index = t]
  IN IF has_legal_move(l1.board, t) THEN l1
     ELSE IF check_game_over(l1.board, t)
          THEN LET p == count_pieces(l1.board)
               IN [l1 EXCEPT !.status = FINISHED,
                             !.winner = IF p[1] > p[2] THEN 0
                                        ELSE IF p[2] > p[1] THEN 1 ELSE TIE]
          ELSE [l1 EXCEPT !.turn_index = 1 - t]

\* _handle_leave that reopens the lobby when a slot is vacated
handle_leave_reopen(p, lobs) ==
  IF p.lobby_id = None THEN [p |-> p, lobbies |-> lobs]
  ELSE IF p.lobby_id \notin DOMAIN lobs
  THEN [p |-> [p EXCEPT !.lobby_id = None], lobbies |-> lobs]
  ELSE LET lb == lobs[p.lobby_id]
           idx == Index(lb.players, p.player_id)
           l1 == IF idx >= 0
                 THEN [lb EXCEPT !.players = Pop(@, idx),
                                 !.player_addresses = Pop(@, idx),
                                 !.status = WAITING]
                 ELSE lb
       IN [p |-> [p EXCEPT !.lobby_id = None],
           lobbies |-> IF l1.players = <<>> THEN Del(lobs, lb.lobby_id)
                       ELSE Put(lobs, lb.lobby_id, l1)]

\* _handle_leave without "del self.lobbies[lb.lobby_id]"
handle_leave_keep_empty(p, lobs) ==
  IF p.lobby_id = None THEN [p |-> p, lobbies |-> lobs]
  ELSE IF p.lobby_id \notin DOMAIN lobs
  THEN [p |-> [p EXCEPT !.lobby_id = None], lobbies |-> lobs]
  ELSE LET lb == lobs[p.lobby_id]
           idx == Index(lb.players, p.player_id)
           l1 == IF idx >= 0
                 THEN [lb EXCEPT !.players = Pop(@, idx),
                                 !.player_addresses = Pop(@, idx)]
                 ELSE lb
       IN [p |-> [p EXCEPT !.lobby_id = None],
           lobbies |-> Put(lobs, lb.lobby_id, l1)]

\* _handle_leave of the Player record p: [p, lobbies]
handle_leave(p, lobs) ==
  IF p.lobby_id = None THEN [p |-> p, lobbies |-> lobs]
  ELSE IF p.lobby_id \notin DOMAIN lobs
  THEN [p |-> [p EXCEPT !.lobby_id = None], lobbies |-> lobs]
  ELSE LET lb == lobs[p.lobby_id]
           idx == Index(lb.players, p.player_id)
           l1 == IF idx >= 0
                 THEN [lb EXCEPT !.players = Pop(@, idx),
                                 !.player_addresses = Pop(@, idx)]
                 ELSE lb
       IN [p |-> [p EXCEPT !.lobby_id = None],
           lobbies |-> IF l1.players = <<>> THEN Del(lobs, lb.lobby_id)
                       ELSE Put(lobs, lb.lobby_id, l1)]

\* _get_or_create_player: the registry after the lookup; pid is the id
\* generate_player_id() draws for a new Player
get_or_create_player(a, pid) ==
  IF a \in DOMAIN players_by_address
  THEN [by_address |-> [players_by_address EXCEPT ![a].idle = 0],
        by_id |-> players_by_id]
  ELSE [by_address |-> Put(players_by_address, a, Player(a, pid)),
        by_id |-> Put(players_by_id, pid, a)]

\* the ids worth drawing for a packet from a: none is drawn for a known address
NewIds(a) == IF a \in DOMAIN players_by_address THEN {MaxPlayerId} ELSE PlayerIds

\* ------------------------------------------------------------------------
\* Dispatcher: _handle_packet for one datagram of address a.  Every action
\* starts with _get_or_create_player (pid: the id drawn if a is new).

\* HELLO
HandleHello(a, pid) ==
  \E reg \in {get_or_create_player(a, pid)} :
     /\ players_by_address' = reg.by_address
     /\ players_by_id' = reg.by_id
     /\ outbox' = {[kind |-> "WELCOME", to |-> a,
                    player_id |-> reg.by_address[a].player_id]}
     /\ UNCHANGED <<lobbies, now>>
     /\ event' = Received(HELLO, a)

\* _handle_create_lobby for the Player record player: [player, lb, out]
create_lobby(player, mode, lid, first) ==
  LET lb == [Lobby(lid, mode) EXCEPT !.players = <<player.player_id>>,
                                     !.player_addresses = <<player.address>>]
      r == maybe_start(lb, first)
  IN [player |-> [player EXCEPT !.lobby_id = lid], lb |-> r.lb, out |-> r.out]

\* CREATE_LOBBY with mode byte `mode`; lid is what generate_lobby_id returns
\* (it loops until it draws an id no live lobby has), first the first turn
\* _maybe_start draws.
HandleCreateLobby(a, pid, mode, lid, first) ==
  /\ lid \notin DOMAIN lobbies
  /\ \E reg \in {get_or_create_player(a, pid)} :
     \E r \in {create_lobby(reg.by_address[a], mode, lid, first)} :
        /\ players_by_address' = [reg.by_address EXCEPT ![a] = r.player]
        /\ players_by_id' = reg.by_id
        /\ lobbies' = Put(lobbies, lid, r.lb)
        /\ outbox' = r.out
  /\ UNCHANGED now
  /\ event' = Received(CREATE_LOBBY, a)

\* _handle_place testing the cell before the turn
place_error_cell_first(player, lobs, cell) ==
  IF player.lobby_id \notin DOMAIN lobs THEN NOT_IN_LOBBY
  ELSE LET lb == lobs[player.lobby_id]
           idx == Index(lb.players, player.player_id)
       IN IF lb.status # PLAYING THEN GAME_NOT_ACTIVE
          ELSE IF idx < 0 THEN SPECTATOR_MOVE_NOT_ALLOWED
          ELSE IF cell = NoTuple THEN BAD_REQUEST
          ELSE IF ~is_legal_move(lb.board, idx, cell[1], cell[2]) THEN ILLEGAL_MOVE
          ELSE IF lb.turn_index # idx THEN NOT_YOUR_TURN
          ELSE IF ~apply_player_move(lb.board, idx, cell[1], cell[2]).ok THEN APPLY_FAILED
          ELSE 0

\* The checks of _handle_place in their order: the error code of the first
\* one that fails, 0 when the move is applied.  cell is NoTuple for a
\* datagram too short to hold x and y (IndexError -> BAD_REQUEST).
place_error(player, lobs, cell) ==
  IF player.lobby_id \notin DOMAIN lobs THEN NOT_IN_LOBBY
  ELSE LET lb == lobs[player.lobby_id]
           idx == Index(lb.players, player.player_id)
       IN IF lb.status # PLAYING THEN GAME_NOT_ACTIVE
          ELSE IF idx < 0 THEN SPECTATOR_MOVE_NOT_ALLOWED
          ELSE IF lb.turn_index # idx THEN NOT_YOUR_TURN
          ELSE IF cell = NoTuple THEN BAD_REQUEST
          ELSE IF ~is_legal_move(lb.board, idx, cell[1], cell[2]) THEN ILLEGAL_MOVE
          ELSE IF ~apply_player_move(lb.board, idx, cell[1], cell[2]).ok THEN APPLY_FAILED
          ELSE 0

\* the lobby after an applied move of slot idx (lines 552-581): [lb, out]
place_apply(lb, idx, cell) ==
  send_state(advance_turn(
    [lb EXCEPT !.board = apply_player_move(lb.board, idx, cell[1], cell[2]).board]))

\* PLACE
HandlePlace(a, pid, cell) ==
  \E reg \in {get_or_create_player(a, pid)} :
  \E err \in {place_error(reg.by_address[a], lobbies, cell)} :
     /\ players_by_address' = reg.by_address
     /\ players_by_id' = reg.by_id
     /\ IF err # 0
        THEN /\ outbox' = {ErrorMsg(a, err)}
             /\ UNCHANGED lobbies
        ELSE \E lb \in {lobbies[reg.by_address[a].lobby_id]} :
             \E r \in {place_apply(lb, Index(lb.players, reg.by_address[a].player_id),
                                   cell)} :
                /\ lobbies' = Put(lobbies, lb.lobby_id, r.lb)
                /\ outbox' = r.out
     /\ UNCHANGED now
     /\ event' = Placed(a, cell)

\* LEAVE
HandleLeave(a, pid) ==
  \E reg \in {get_or_create_player(a, pid)} :
  \E r \in {handle_leave(reg.by_address[a], lobbies)} :
     /\ players_by_address' = [reg.by_address EXCEPT ![a] = r.p]
     /\ players_by_id' = reg.by_id
     /\ lobbies' = r.lobbies
     /\ outbox' = {}
     /\ UNCHANGED now
     /\ event' = Received(LEAVE, a)

\* ChatMessage(sender, message); the text is <<n, length in bytes>>
ChatMessage(sender, message) ==
  [sender |-> sender, message |-> message, timestamp |-> now]

\* deque.append on a deque without maxlen
deque_append_unbounded(history, m) == Append(history, m)

\* deque(maxlen=MAX_CHAT_HISTORY).append: a full deque drops its first entry
deque_append(history, m) ==
  IF Len(history) >= MAX_CHAT_HISTORY THEN Append(Tail(history), m)
  ELSE Append(history, m)

\* Lobby.add_chat: [ok, lb]
add_chat(lb, sender, msg) ==
  IF msg[2] > MAX_CHAT_MESSAGE_LENGTH THEN [ok |-> FALSE, lb |-> lb]
  ELSE [ok |-> TRUE,
        lb |-> [lb EXCEPT !.chat_history = deque_append(@, ChatMessage(sender, msg))]]

\* _broadcast_chat: CHAT_MESSAGE to every address of the lobby
broadcast_chat(lb, sender, message) ==
  {[kind |-> "CHAT_MESSAGE", to |-> lb.player_addresses[i], lobby |-> lb.lobby_id,
    sender |-> sender, message |-> message] :
   i \in {j \in 1..Len(lb.player_addresses) : lb.player_addresses[j] # NoAddr}}

\* _handle_chat for the datagram d = [size: len(data), msg_len: the two bytes
\* data[1:3]] carrying the text n: [lobbies, out].  The sender recorded is
\* the player's name, which the model identifies with the player's address.
handle_chat(player, lobs, d, n) ==
  IF player.lobby_id = None
  THEN [lobbies |-> lobs, out |-> {ErrorMsg(player.address, NOT_IN_LOBBY)}]
  ELSE IF player.lobby_id \notin DOMAIN lobs
  THEN [lobbies |-> lobs, out |-> {ErrorMsg(player.address, LOBBY_NOT_FOUND)}]
  ELSE IF d.size < 3
  THEN [lobbies |-> lobs, out |-> {ErrorMsg(player.address, BAD_REQUEST)}]
  ELSE IF d.msg_len > MAX_CHAT_MESSAGE_LENGTH \/ d.size < 3 + d.msg_len
  THEN [lobbies |-> lobs, out |-> {ErrorMsg(player.address, MESSAGE_TOO_LONG)}]
  ELSE LET message == <<n, d.msg_len>>      \* data[start:end]
           r == add_chat(lobs[player.lobby_id], player.address, message)
       IN IF ~r.ok
          THEN [lobbies |-> lobs, out |-> {ErrorMsg(player.address, MESSAGE_TOO_LONG)}]
          ELSE [lobbies |-> Put(lobs, player.lobby_id, r.lb),
                out |-> broadcast_chat(r.lb, player.address, message)]

\* CHAT
HandleChat(a, pid, d, n) ==
  \E reg \in {get_or_create_player(a, pid)} :
  \E r \in {handle_chat(reg.by_address[a], lobbies, d, n)} :
     /\ players_by_address' = reg.by_address
     /\ players_by_id' = reg.by_id
     /\ lobbies' = r.lobbies
     /\ outbox' = r.out
     /\ UNCHANGED now
     /\ event' = Chatted(a, d, n)

\* a datagram of a kind _handle_packet has no branch for
HandleUnrouted(a, pid, kind) ==
  \E reg \in {get_or_create_player(a, pid)} :
     /\ kind \in UnroutedKinds
     /\ players_by_address' = reg.by_address
     /\ players_by_id' = reg.by_id
     /\ outbox' = {ErrorMsg(a, UNKNOWN_MESSAGE_TYPE)}
     /\ UNCHANGED <<lobbies, now>>
     /\ event' = Received(kind, a)

\* ------------------------------------------------------------------------
\* Tick scheduler

\* the lobby is playing and the slot to move holds a bot marker
bot_to_move(lb) ==
  /\ lb.started
  /\ lb.status = PLAYING
  /\ lb.turn_index < Len(lb.players)
  /\ lb.players[lb.turn_index + 1] \in {CPU, AI}

\* the move the policy of the bot to move returns
bot_select(lb) ==
  IF lb.players[lb.turn_index + 1] = AI
  THEN ai_select_move(lb.board, lb.turn_index)
  ELSE cpu_select_move(lb.board, lb.turn_index)

\* the bot turn with the move mv (lines 671-700): [lb, out]
\* the bot turn without the final self._send_state(lb)
bot_apply_no_send(lb, mv) ==
  Bind(IF mv # NoTuple
       THEN [lb EXCEPT !.board =
               apply_player_move(lb.board, lb.turn_index, mv[1], mv[2]).board]
       ELSE lb,
       LAMBDA l1 :
         [lb |-> [advance_turn(l1) EXCEPT !.cpu_action_due = None], out |-> {}])

bot_apply(lb, mv) ==
  Bind(IF mv # NoTuple
       THEN [lb EXCEPT !.board =
               apply_player_move(lb.board, lb.turn_index, mv[1], mv[2]).board]
       ELSE lb,
       LAMBDA l1 :
         Bind([advance_turn(l1) EXCEPT !.cpu_action_due = None], send_state))

bot_turn(lb) == Bind(bot_select(lb), LAMBDA mv : bot_apply(lb, mv))

\* the loop body without the think delay: the bot moves at the first firing
tick_lobby_no_delay(lb, d) ==
  IF ~bot_to_move(lb) THEN [lb |-> lb, out |-> {}]
  ELSE bot_turn(lb)

\* the body of the "CPU MOVE" loop for one lobby; d is the think delay drawn
tick_lobby(lb, d) ==
  IF ~bot_to_move(lb) THEN [lb |-> lb, out |-> {}]
  ELSE IF lb.cpu_action_due = None
  THEN [lb |-> [lb EXCEPT !.cpu_action_due = d], out |-> {}]
  ELSE IF lb.cpu_action_due <= 0 THEN bot_turn(lb)
  ELSE [lb |-> lb, out |-> {}]

\* the lobbies for which this tick draws a think delay
needs_deadline ==
  {l \in DOMAIN lobbies : bot_to_move(lobbies[l]) /\ lobbies[l].cpu_action_due = None}

\* the players the reaper removes at this reading of the clock
dead_players(by_address) ==
  {a \in DOMAIN by_address : by_address[a].idle > TimeoutMs}

\* the loop over dead (lines 710-714): [by_address, by_id, lobbies]
RECURSIVE reap(_, _, _, _)
reap(dead, by_address, by_id, lobs) ==
  IF dead = {} THEN [by_address |-> by_address, by_id |-> by_id, lobbies |-> lobs]
  ELSE LET a == CHOOSE x \in dead : TRUE
           p == by_address[a]
       IN reap(dead \ {a}, Del(by_address, a), Del(by_id, p.player_id),
               IF p.lobby_id # None THEN handle_leave(p, lobs).lobbies ELSE lobs)

\* int(ts) % 5 == 0
reap_time == (now \div 1000) % REAP_PERIOD = 0

\* "Idle players" (lines 702-714) on the lobbies the bot loop left
reap_idle(lobs) ==
  IF reap_time
  THEN reap(dead_players(players_by_address), players_by_address, players_by_id, lobs)
  ELSE [by_address |-> players_by_address, by_id |-> players_by_id, lobbies |-> lobs]

\* _tick; ds gives the think delay drawn for each lobby that needs one
Tick(ds) ==
  \E moved \in {[l \in DOMAIN lobbies |->
                   tick_lobby(lobbies[l], IF l \in DOMAIN ds THEN ds[l] ELSE 0)]} :
  \E r \in {reap_idle([l \in DOMAIN lobbies |-> moved[l].lb])} :
     /\ players_by_address' = r.by_address
     /\ players_by_id' = r.by_id
     /\ lobbies' = r.lobbies
     /\ outbox' = UNION {moved[l].out : l \in DOMAIN lobbies}
     /\ UNCHANGED now
     /\ event' = Ticked
     /\ UNCHANGED lockvars

\* time passes: step ms
Clock(step) ==
  /\ now' = (now + step) % ReapMs
  /\ players_by_address' =
       [a \in DOMAIN players_by_address |->
          [players_by_address[a] EXCEPT
             !.idle = IF @ + step > IdleCap THEN IdleCap ELSE @ + step]]
  /\ lobbies' =
       [l \in DOMAIN lobbies |->
          [lobbies[l] EXCEPT
             !.cpu_action_due = IF @ = None THEN None
                                ELSE IF @ - step < 0 THEN 0 ELSE @ - step]]
  /\ outbox' = {}
  /\ UNCHANGED players_by_id
  /\ event' = Elapsed
  /\ UNCHANGED lockvars

\* ------------------------------------------------------------------------
Init ==
  /\ players_by_address = EmptyDict
  /\ players_by_id = EmptyDict
  /\ lobbies = EmptyDict
  /\ now = 0
  /\ outbox = {}
  /\ event = Started
  /\ pc = [t \in Tasks |-> <<>>]
  /\ held = [k \in {PLAYER_LOCK, LOBBY_LOCK} |-> Unlocked]

\* one datagram of address a is handled
Packet(a, pid, modes, cells, lids, kinds) ==
  /\ \/ HandleHello(a, pid)
     \/ \E mode \in modes, lid \in lids, first \in {0, 1} :
          HandleCreateLobby(a, pid, mode, lid, first)
     \/ \E cell \in cells : HandlePlace(a, pid, cell)
     \/ HandleLeave(a, pid)
     \/ \E kind \in kinds : HandleUnrouted(a, pid, kind)
  /\ UNCHANGED lockvars

\* One client and every lobby id: the client may create lobby after lobby.
Next ==
  \/ \E a \in SoloAddrs : \E pid \in NewIds(a) :
       Packet(a, pid, Modes, SoloInputs, LobbyIds, {PING})
  \/ \E ds \in [needs_deadline -> ThinkDelays] : Tick(ds)
  \/ \E step \in ClockSteps : Clock(step)

Spec == Init /\ [][Next]_vars

\* One client and one lobby id, with PLACE payloads of every kind.
NextPlace ==
  \/ \E a \in SoloAddrs : \E pid \in NewIds(a) :
       Packet(a, pid, Modes, PlaceInputs \cup {Truncated}, PairLobbyIds, UnroutedKinds)
  \/ \E ds \in [needs_deadline -> ThinkDelays] : Tick(ds)
  \/ \E step \in ClockSteps : Clock(step)

SpecPlace == Init /\ [][NextPlace]_vars

\* The tick task fires again and again (_tick_loop) and time advances.
TickStep == \E ds \in [needs_deadline -> ThinkDelays] : Tick(ds)
ClockStep == \E step \in ClockSteps : Clock(step)

SpecPlaceFair == SpecPlace /\ WF_vars(TickStep) /\ WF_vars(ClockStep)

\* Two clients and one lobby id.
NextPair ==
  \/ \E a \in Addrs : \E pid \in NewIds(a) :
       Packet(a, pid, PairModes, PairInputs, PairLobbyIds, {JOIN_LOBBY})
  \/ \E ds \in [needs_deadline -> ThinkDelays] : Tick(ds)
  \/ \E step \in ClockSteps : Clock(step)

SpecPair == Init /\ [][NextPair]_vars

\* One client playing the heuristic bot in one lobby, with the PLACE payloads
\* of games in which a side has to pass and in which the game ends.
NextGame ==
  \/ \E a \in GameAddrs : \E pid \in NewIds(a) :
       Packet(a, pid, GameModes, GameInputs, GameLobbyIds, {PING})
  \/ \E ds \in [needs_deadline -> ThinkDelays] : Tick(ds)
  \/ \E step \in ClockSteps : Clock(step)

SpecGame == Init /\ [][NextGame]_vars

\* ---- a whole game
\* the cell the client at address a sends in a PLACE: the first legal move of
\* side 0 on the board of its lobby
FullInputs(a) ==
  IF a \in DOMAIN players_by_address
     /\ players_by_address[a].lobby_id \in DOMAIN lobbies
     /\ has_legal_move(lobbies[players_by_address[a].lobby_id].board, 0)
  THEN {find_legal_moves(lobbies[players_by_address[a].lobby_id].board, 0)[1]}
  ELSE {<<0, 0>>}

\* One client playing the heuristic bot in one lobby, move after move until
\* the board is full.
NextFull ==
  \/ \E a \in GameAddrs : \E pid \in NewIds(a) :
       Packet(a, pid, GameModes, FullInputs(a), GameLobbyIds, {PING})
  \/ \E ds \in [needs_deadline -> ThinkDelays] : Tick(ds)
  \/ \E step \in ClockSteps : Clock(step)

SpecFull == Init /\ [][NextFull]_vars

\* ---- chat
\* the texts a client sends are numbered; at most MaxChat of them
MaxChat == 52
\* len(data) of a CHAT datagram: no length field, no text, a text of the
\* maximum length, a longer text
ChatSizes == {1, 3, 3 + MAX_CHAT_MESSAGE_LENGTH, 3 + MAX_CHAT_MESSAGE_LENGTH + 1}
\* the length field of a CHAT datagram
ChatLengths == {MAX_CHAT_MESSAGE_LENGTH, MAX_CHAT_MESSAGE_LENGTH + 1}
ChatInputs == [size : ChatSizes, msg_len : ChatLengths]

\* the number of the next text of the client at address a: one more than the
\* last text its lobby has taken
NextText(a) ==
  IF a \in DOMAIN players_by_address
     /\ players_by_address[a].lobby_id \in DOMAIN lobbies
     /\ lobbies[players_by_address[a].lobby_id].chat_history # <<>>
  THEN LET h == lobbies[players_by_address[a].lobby_id].chat_history
       IN h[Len(h)].message[1] + 1
  ELSE 1

\* One client in one two-player lobby, sending CHAT datagrams.
NextChat ==
  /\ \/ \E a \in SoloAddrs : \E pid \in NewIds(a) :
          HandleCreateLobby(a, pid, PLAYER_VS_PLAYER, 1, 0)
     \/ \E a \in SoloAddrs : \E pid \in NewIds(a) : \E d \in ChatInputs :
          /\ NextText(a) <= MaxChat
          /\ HandleChat(a, pid, d, NextText(a))
     \/ \E a \in SoloAddrs : \E pid \in NewIds(a) : HandleLeave(a, pid)
  /\ UNCHANGED lockvars

SpecChat == Init /\ [][NextChat]_vars

\* ---- the threads and the locks alone
\* the kinds of datagram the workers handle
LockKinds == {HELLO, CREATE_LOBBY, PLACE, CHAT, LEAVE, PING}

\* the receive loop hands a datagram to the free worker w (line 382)
Submit(w, kind) ==
  /\ pc[w] = <<>>
  /\ \E s \in packet_locks(kind) : pc' = [pc EXCEPT ![w] = s]
  /\ UNCHANGED <<players_by_address, players_by_id, lobbies, now, outbox, event, held>>

\* the tick loop calls _tick (line 647)
TickStart ==
  /\ pc[TickTask] = <<>>
  /\ \E s \in tick_locks : pc' = [pc EXCEPT ![TickTask] = s]
  /\ UNCHANGED <<players_by_address, players_by_id, lobbies, now, outbox, event, held>>

\* task t waits at an acquire of a lock another task owns
Blocked(t) ==
  /\ pc[t] # <<>>
  /\ Head(pc[t])[1] = "acquire"
  /\ held[Head(pc[t])[2]].owner \notin {None, t}

\* task t enters a with block: RLock.acquire, free or owned by t itself
LockAcquire(t) ==
  /\ pc[t] # <<>>
  /\ Head(pc[t])[1] = "acquire"
  /\ ~Blocked(t)
  /\ held' = [held EXCEPT ![Head(pc[t])[2]] = [owner |-> t, count |-> @.count + 1]]
  /\ pc' = [pc EXCEPT ![t] = Tail(@)]
  /\ UNCHANGED <<players_by_address, players_by_id, lobbies, now, outbox, event>>

\* task t leaves a with block: RLock.release
LockRelease(t) ==
  /\ pc[t] # <<>>
  /\ Head(pc[t])[1] = "release"
  /\ held' = [held EXCEPT ![Head(pc[t])[2]] =
                 IF @.count = 1 THEN Unlocked ELSE [@ EXCEPT !.count = @ - 1]]
  /\ pc' = [pc EXCEPT ![t] = Tail(@)]
  /\ UNCHANGED <<players_by_address, players_by_id, lobbies, now, outbox, event>>

NextLocks ==
  \/ \E w \in Workers, kind \in LockKinds : Submit(w, kind)
  \/ TickStart
  \/ \E t \in Tasks : LockAcquire(t)
  \/ \E t \in Tasks : LockRelease(t)

\* The workers and the tick thread, interleaved at their lock operations.
SpecLocks == Init /\ [][NextLocks]_vars

\* _send_state(lobbies[l]) is called
SendState(l) ==
  /\ l \in DOMAIN lobbies
  /\ \E r \in {send_state(lobbies[l])} :
       /\ lobbies' = Put(lobbies, l, r.lb)
       /\ outbox' = r.out
  /\ event' = Attempted(l)
  /\ UNCHANGED <<players_by_address, players_by_id, now>>
  /\ UNCHANGED lockvars

\* the game state of lobby l changes: status, turn_index, board are assigned
SetState(l, status, turn, board) ==
  /\ l \in DOMAIN lobbies
  /\ <<status, turn, board>> # state_hash(lobbies[l])
  /\ lobbies' = [lobbies EXCEPT ![l].status = status, ![l].turn_index = turn,
                                ![l].board = board]
  /\ outbox' = {}
  /\ event' = Changed
  /\ UNCHANGED <<players_by_address, players_by_id, now>>
  /\ UNCHANGED lockvars

\* a lobby as Lobby.__init__ leaves it, with slots and a game state
InitSend ==
  /\ players_by_address = EmptyDict
  /\ players_by_id = EmptyDict
  /\ \E sl \in SendSlots, st \in SendStatuses, t \in {0, 1}, b \in SendBoards :
       lobbies = Put(EmptyDict, 1,
                     [Lobby(1, PLAYER_VS_CPU) EXCEPT
                        !.players = sl[1], !.player_addresses = sl[2],
                        !.status = st, !.turn_index = t, !.board = b])
  /\ now = 0
  /\ outbox = {}
  /\ event = Started
  /\ pc = [t \in Tasks |-> <<>>]
  /\ held = [k \in {PLAYER_LOCK, LOBBY_LOCK} |-> Unlocked]

NextSend ==
  \/ \E l \in DOMAIN lobbies : SendState(l)
  \/ \E l \in DOMAIN lobbies, st \in SendStatuses, t \in {0, 1}, b \in SendBoards :
       SetState(l, st, t, b)

\* _send_state on its own: attempts to broadcast, between changes of the state
SpecSend == InitSend /\ [][NextSend]_vars

\* ------------------------------------------------------------------------
\* Properties

\* the step e handled a PLACE datagram of address a
IsPlace(e, a) == e.kind = PLACE /\ e.from = a

\* the GAME_STATE datagrams of lobby l in the outbox
StateSent(l) == {m \in outbox : m.kind = "GAME_STATE" /\ m.lobby = l}

\* the lobby the Player of address a refers to is live: its id, else None
LobbyOf(a) ==
  IF a \in DOMAIN players_by_address
     /\ players_by_address[a].lobby_id \in DOMAIN lobbies
  THEN players_by_address[a].lobby_id
  ELSE None

Pieces(board, side) ==
  Cardinality({c \in (0..(SIZE - 1)) \X (0..(SIZE - 1)) : board[c[2]][c[1]] = side})

C5_SkipBackToMover ==
  [][\A l \in (DOMAIN lobbies) \cap (DOMAIN lobbies') :
       LET mover == lobbies[l].turn_index
           after == lobbies'[l].board
       IN (/\ after # lobbies[l].board
           /\ ~has_legal_move(after, 1 - mover)
           /\ has_legal_move(after, mover))
          => /\ lobbies'[l].status = PLAYING
             /\ lobbies'[l].turn_index = mover]_vars

\* a human PLACE was applied and left the bot without a move: the turn is
\* the human's again
C5_Witness ==
  \E a \in Addrs :
    /\ LobbyOf(a) # None
    /\ IsPlace(event, a)
    /\ StateSent(LobbyOf(a)) # {}
    /\ LET lb == lobbies[LobbyOf(a)]
       IN /\ lb.status = PLAYING
          /\ lb.players[lb.turn_index + 1] = players_by_address[a].player_id
          /\ ~has_legal_move(lb.board, 1 - lb.turn_index)

\* C6: a move finishes the lobby exactly when neither side has a legal move on
\* the resulting board; a lobby finishes only by a move, and the winner then
\* is the side with more pieces, or the tie marker.
C6_FinishedIffNoMoves ==
  [][\A l \in (DOMAIN lobbies) \cap (DOMAIN lobbies') :
       LET after == lobbies'[l].board
           p0 == Pieces(after, 0)
           p1 == Pieces(after, 1)
       IN /\ after # lobbies[l].board =>
               (lobbies'[l].status = FINISHED
                  <=> (~has_legal_move(after, 0) /\ ~has_legal_move(after, 1)))
          /\ (lobbies[l].status # FINISHED /\ lobbies'[l].status = FINISHED) =>
               /\ after # lobbies[l].board
               /\ lobbies'[l].winner = (IF p0 > p1 THEN 0 ELSE IF p1 > p0 THEN 1 ELSE TIE)]_vars

\* a lobby has just finished and its winner is set
C6_Witness ==
  \E l \in DOMAIN lobbies :
    /\ lobbies[l].status = FINISHED
    /\ \E m \in StateSent(l) : m.status = FINISHED
    /\ lobbies[l].winner \in {0, 1, TIE}

\* every PLACE payload a specification sends
AllCells == PlaceInputs \cup GameInputs

\* C7: the answer the claim gives for a PLACE of (x, y) = cell from a: the
\* code of the first precondition that fails, 0 if none fails
C7_Expected(a, cell) ==
  IF LobbyOf(a) = None THEN NOT_IN_LOBBY
  ELSE LET lb == lobbies[LobbyOf(a)]
           seats == {i \in 1..Len(lb.players) :
                       lb.players[i] = players_by_address[a].player_id}
       IN IF lb.status # PLAYING THEN GAME_NOT_ACTIVE
          ELSE IF seats = {} THEN SPECTATOR_MOVE_NOT_ALLOWED
          ELSE IF (lb.turn_index + 1) \notin seats THEN NOT_YOUR_TURN
          ELSE IF cell \notin Range(find_legal_moves(lb.board, lb.turn_index))
          THEN ILLEGAL_MOVE
          ELSE 0

\* C7: a PLACE carrying a cell is rejected exactly when a precondition fails,
\* with the error code of the first failing one, and then no lobby changes;
\* when none fails no error is sent and the cell is taken by the mover.
C7_PlaceRejection ==
  [][\A a \in Addrs : \A cell \in AllCells :
       event' = Placed(a, cell) =>
         \A e \in {C7_Expected(a, cell)} :
           IF e # 0
           THEN /\ outbox' = {ErrorMsg(a, e)}
                /\ lobbies' = lobbies
           ELSE /\ \A m \in outbox' : m.kind # "ERROR"
                /\ lobbies'[LobbyOf(a)].board[cell[2]][cell[1]]
                     = lobbies[LobbyOf(a)].turn_index]_vars

\* a PLACE of an illegal cell by the player to move was answered ILLEGAL_MOVE
C7_Witness ==
  \E a \in Addrs :
    /\ LobbyOf(a) # None
    /\ IsPlace(event, a)
    /\ outbox = {ErrorMsg(a, ILLEGAL_MOVE)}
    /\ lobbies[LobbyOf(a)].status = PLAYING

\* the slots of lobby record lb that hold the id pid
Seats(lb, pid) == {i \in 1..Len(lb.players) : lb.players[i] = pid}

\* C1: a CREATE_LOBBY with a bot mode leaves, in the same step, a new live
\* lobby with the creator in slot 0 and the bot marker of the mode in slot 1,
\* started, playing, with turn_index 0 or 1.
C1_BotLobbyStarts ==
  [][\A a \in Addrs :
       (event'.kind = CREATE_LOBBY /\ event'.from = a) =>
         \E l \in (DOMAIN lobbies') \ (DOMAIN lobbies) :
           /\ players_by_address'[a].lobby_id = l
           /\ lobbies'[l].mode \in {PLAYER_VS_CPU, PLAYER_VS_AI} =>
                /\ lobbies'[l].players =
                     <<players_by_address'[a].player_id,
                       IF lobbies'[l].mode = PLAYER_VS_AI THEN AI ELSE CPU>>
                /\ lobbies'[l].player_addresses = <<a, NoAddr>>
                /\ lobbies'[l].started
                /\ lobbies'[l].status = PLAYING
                /\ lobbies'[l].turn_index \in {0, 1}]_vars

\* two bot lobbies, of either bot mode, have just been created and not yet
\* played in: one starts with turn_index 0, the other with turn_index 1
C1_Witness ==
  /\ event.kind = CREATE_LOBBY
  /\ \E l, k \in DOMAIN lobbies :
       /\ lobbies[l].mode = PLAYER_VS_CPU /\ lobbies[k].mode = PLAYER_VS_AI
       /\ lobbies[l].status = PLAYING /\ lobbies[k].status = PLAYING
       /\ lobbies[l].board = create_initial_board
       /\ lobbies[k].board = create_initial_board
       /\ lobbies[l].players[2] = CPU /\ lobbies[k].players[2] = AI
       /\ {lobbies[l].turn_index, lobbies[k].turn_index} = {0, 1}

\* C2: when a second human sends JOIN_LOBBY while a human-vs-human lobby is
\* waiting with one seated human, that lobby is playing after the step.
C2_JoinStartsGame ==
  [][\A a \in Addrs :
       (event'.kind = JOIN_LOBBY /\ event'.from = a) =>
         \A l \in DOMAIN lobbies :
           (/\ lobbies[l].mode = PLAYER_VS_PLAYER
            /\ lobbies[l].status = WAITING
            /\ Len(lobbies[l].players) = 1
            /\ a \notin Range(lobbies[l].player_addresses))
           => /\ l \in DOMAIN lobbies'
              /\ lobbies'[l].status = PLAYING]_vars

\* C3: every live lobby whose status is playing has exactly two filled slots.
C3_PlayingHasTwoSlots ==
  \A l \in DOMAIN lobbies :
    lobbies[l].status = PLAYING => Len(lobbies[l].players) = 2

\* C8: after a LEAVE of a player whose lobby reference names a live lobby, the
\* reference is cleared, the lobby is live exactly if a slot is left and then
\* holds the player's id no more, and every other lobby is as it was.
C8_LeaveEffects ==
  [][\A a \in Addrs :
       (event'.kind = LEAVE /\ event'.from = a /\ LobbyOf(a) # None) =>
         LET l == LobbyOf(a)
             pid == players_by_address[a].player_id
             rest == SelectSeq(lobbies[l].players, LAMBDA x : x # pid)
         IN /\ players_by_address'[a].lobby_id = None
            /\ (l \in DOMAIN lobbies') <=> (rest # <<>>)
            /\ l \in DOMAIN lobbies' =>
                 /\ lobbies'[l].players = rest
                 /\ Len(lobbies'[l].player_addresses) = Len(rest)
            /\ DOMAIN lobbies' \subseteq DOMAIN lobbies
            /\ \A k \in (DOMAIN lobbies) \ {l} :
                 k \in DOMAIN lobbies' /\ lobbies'[k] = lobbies[k]]_vars

\* a LEAVE has just vacated the human slot of one lobby; another lobby is live
\* and still full
C8_Witness ==
  /\ event.kind = LEAVE
  /\ players_by_address[event.from].lobby_id = None
  /\ \E l, k \in DOMAIN lobbies :
       /\ Len(lobbies[l].players) = 1
       /\ lobbies[l].players[1] \in {CPU, AI}
       /\ Len(lobbies[k].players) = 2

\* C9: a reaping pass (a tick at a time with int(ts) % 5 = 0) leaves every
\* player idle for more than the timeout out of both registry indexes and out
\* of every slot of every live lobby, and leaves every other player
\* registered and seated as it was.
C9_ReapPass ==
  [][(event' = Ticked /\ reap_time) =>
       \A a \in DOMAIN players_by_address :
         LET p == players_by_address[a]
         IN IF p.idle > TimeoutMs
            THEN /\ a \notin DOMAIN players_by_address'
                 /\ p.player_id \notin DOMAIN players_by_id'
                 /\ \A l \in DOMAIN lobbies' :
                      /\ Seats(lobbies'[l], p.player_id) = {}
                      /\ a \notin Range(lobbies'[l].player_addresses)
            ELSE /\ a \in DOMAIN players_by_address'
                 /\ players_by_address'[a] = p
                 /\ p.player_id \in DOMAIN players_by_id'
                 /\ \A l \in DOMAIN lobbies :
                      Seats(lobbies[l], p.player_id) # {} =>
                        /\ l \in DOMAIN lobbies'
                        /\ Seats(lobbies'[l], p.player_id)
                             = Seats(lobbies[l], p.player_id)]_vars

\* C10: a call of _send_state on a lobby sends GAME_STATE to exactly the
\* lobby's human slots when (status, turn_index, board) differs from the
\* triple recorded at the last broadcast and sends nothing when it is equal;
\* the call leaves the current triple recorded and the game state untouched,
\* so that a second call with no change in between sends nothing.
C10_SendIffChanged ==
  [][\A l \in DOMAIN lobbies :
       event' = Attempted(l) =>
         LET lb == lobbies[l]
             triple == <<lb.status, lb.turn_index, lb.board>>
             humans == Range(lb.player_addresses) \ {NoAddr}
         IN /\ triple # lb.last_hash =>
                 /\ {m.to : m \in outbox'} = humans
                 /\ \A m \in outbox' : m.kind = "GAME_STATE" /\ m.lobby = l
            /\ triple = lb.last_hash => outbox' = {}
            /\ event = Attempted(l) => outbox' = {}
            /\ lobbies'[l] = [lb EXCEPT !.last_hash = triple]]_vars

\* a second call of _send_state right after one that sent: nothing is sent
C10_Witness ==
  \E l \in DOMAIN lobbies :
    /\ event = Attempted(l)
    /\ outbox = {}
    /\ lobbies[l].last_hash = state_hash(lobbies[l])
    /\ Range(lobbies[l].player_addresses) # {NoAddr}

\* the lobby record lb is playing and the slot of the side to move holds a bot
BotSide(lb) ==
  /\ lb.status = PLAYING
  /\ lb.turn_index < Len(lb.players)
  /\ lb.players[lb.turn_index + 1] \in {CPU, AI}

\* C11: for a playing lobby whose side to move is a bot, a tick with no
\* deadline recorded records one and moves nothing; a tick before the deadline
\* changes nothing; board or turn_index change in a tick only when a recorded
\* deadline has passed, and then no deadline is left; no other step changes
\* the board or turn_index while the bot is to move.
C11_DeadlineThenMove ==
  [][\A l \in (DOMAIN lobbies) \cap (DOMAIN lobbies') :
       LET lb == lobbies[l]
           after == lobbies'[l]
           moved == after.board # lb.board \/ after.turn_index # lb.turn_index
       IN /\ (event' = Ticked /\ BotSide(lb) /\ lb.cpu_action_due = None) =>
               /\ ~moved
               /\ after.cpu_action_due # None
               /\ after.cpu_action_due >= CPU_THINK_DELAY_MS[1]
               /\ after.cpu_action_due <= CPU_THINK_DELAY_MS[2]
          /\ (event' = Ticked /\ BotSide(lb) /\ lb.cpu_action_due # None
                /\ lb.cpu_action_due > 0) =>
               /\ ~moved
               /\ after.cpu_action_due = lb.cpu_action_due
          /\ (event' = Ticked /\ moved) =>
               /\ BotSide(lb)
               /\ lb.cpu_action_due # None
               /\ lb.cpu_action_due <= 0
               /\ after.cpu_action_due = None
          /\ (event' # Ticked /\ BotSide(lb)) => ~moved]_vars

\* a tick has just executed a bot turn: the state was sent, the board is no
\* longer the initial one and no deadline is recorded
C11_Witness ==
  /\ event = Ticked
  /\ \E l \in DOMAIN lobbies :
       /\ StateSent(l) # {}
       /\ lobbies[l].board # create_initial_board
       /\ lobbies[l].cpu_action_due = None

\* C12: with the tick task and the clock scheduled fairly, a live playing
\* lobby whose side to move is a bot eventually has another turn_index, is
\* finished or is destroyed.
C12_BotEventuallyMoves ==
  \A l \in LobbyIds : \A t \in {0, 1} :
    (l \in DOMAIN lobbies /\ BotSide(lobbies[l]) /\ lobbies[l].turn_index = t)
      ~> (\/ l \notin DOMAIN lobbies
          \/ lobbies[l].status = FINISHED
          \/ lobbies[l].turn_index # t)

\* C13: no task is about to acquire the registry lock (PLAYER_LOCK) while it
\* owns the lobby lock (LOBBY_LOCK); only the tick task (the reaper) ever owns
\* or requests the lobby lock while owning the registry lock; and whenever some
\* task has lock operations left, some task is not blocked (no deadlock).
C13_LockOrder ==
  /\ \A t \in Tasks :
       (pc[t] # <<>> /\ Head(pc[t]) = Acquire(PLAYER_LOCK)) =>
          held[LOBBY_LOCK].owner # t
  /\ \A t \in Tasks :
       (/\ held[PLAYER_LOCK].owner = t
        /\ \/ held[LOBBY_LOCK].owner = t
           \/ (pc[t] # <<>> /\ Head(pc[t]) = Acquire(LOBBY_LOCK))) => t = TickTask
  /\ (\E t \in Tasks : pc[t] # <<>>) => (\E t \in Tasks : pc[t] # <<>> /\ ~Blocked(t))

\* the reaper owns the registry lock and waits for the lobby lock a worker
\* owns, while another worker waits for the registry lock
C13_Witness ==
  /\ held[PLAYER_LOCK].owner = TickTask
  /\ Blocked(TickTask)
  /\ held[LOBBY_LOCK].owner \in Workers
  /\ \E u \in Workers : Blocked(u) /\ Head(pc[u]) = Acquire(PLAYER_LOCK)

\* every cell find_legal_moves returns for the side is applied by
\* apply_player_move, with a flipped piece
AllApply(board, side) ==
  \A moves \in {find_legal_moves(board, side)} :
    \A i \in 1..Len(moves) :
      \A r \in {apply_player_move(board, side, moves[i][1], moves[i][2])} :
        /\ r.ok
        /\ r.changed >= 2
        /\ Pieces(r.board, 1 - side) = Pieces(board, 1 - side) - (r.changed - 1)

\* C14: on every board a lobby gets (the initial board of a new lobby, the
\* board after a PLACE or a bot turn), for each side, every cell of
\* find_legal_moves is applied by apply_player_move with at least one flipped
\* piece; no step sends APPLY_FAILED; and a bot turn with a legal move puts
\* the selected move on the board.
C14_LegalMovesApply ==
  [][/\ \A l \in DOMAIN lobbies' :
          (l \notin DOMAIN lobbies \/ lobbies'[l].board # lobbies[l].board) =>
             (AllApply(lobbies'[l].board, 0) /\ AllApply(lobbies'[l].board, 1))
     /\ \A m \in outbox' : m.kind = "ERROR" => m.code # APPLY_FAILED
     /\ \A l \in (DOMAIN lobbies) \cap (DOMAIN lobbies') :
          (/\ event' = Ticked
           /\ BotSide(lobbies[l])
           /\ lobbies[l].cpu_action_due # None
           /\ lobbies[l].cpu_action_due <= 0
           /\ has_legal_move(lobbies[l].board, lobbies[l].turn_index)) =>
             \A mv \in {bot_select(lobbies[l])} :
               /\ mv # NoTuple
               /\ lobbies'[l].board[mv[2]][mv[1]] = lobbies[l].turn_index
               /\ Pieces(lobbies'[l].board, lobbies[l].turn_index)
                     >= Pieces(lobbies[l].board, lobbies[l].turn_index) + 2]_vars

\* a bot turn has put a piece on the board after a PLACE of the human, and
\* both sides have legal moves on the board reached
C14_Witness ==
  /\ event = Ticked
  /\ \E l \in DOMAIN lobbies :
       /\ Pieces(lobbies[l].board, 0) + Pieces(lobbies[l].board, 1) >= 8
       /\ lobbies[l].turn_index = 0
       /\ find_legal_moves(lobbies[l].board, 0) # <<>>
       /\ find_legal_moves(lobbies[l].board, 1) # <<>>

\* C15: no two registered players have the same player_id, and players_by_id
\* holds exactly the Player objects players_by_address holds, each under its
\* own id.
C15_UniqueIds ==
  /\ \A a, b \in DOMAIN players_by_address :
       a # b => players_by_address[a].player_id # players_by_address[b].player_id
  /\ DOMAIN players_by_id = {players_by_address[a].player_id : a \in DOMAIN players_by_address}
  /\ \A a \in DOMAIN players_by_address :
       players_by_id[players_by_address[a].player_id] = a

\* C16: a CHAT datagram of a player in a live lobby whose length field
\* exceeds MAX_CHAT_MESSAGE_LENGTH is answered MESSAGE_TOO_LONG and changes no
\* lobby; a CHAT datagram that holds the text its length field declares, of
\* at most MAX_CHAT_MESSAGE_LENGTH bytes, is appended as the last entry, the
\* earlier entries keep their order and the oldest one is dropped when the
\* history is full; no other step changes a history; a history never has
\* more than MAX_CHAT_HISTORY entries and no entry is longer than
\* MAX_CHAT_MESSAGE_LENGTH.
C16_ChatHistory ==
  [][/\ \A a \in SoloAddrs : \A l \in {LobbyOf(a)} :
          (event'.op = "packet" /\ event'.kind = CHAT /\ event'.from = a /\ l # None) =>
             LET size == event'.arg[1]
                 msg_len == event'.arg[2]
                 n == event'.arg[3]
                 h == lobbies[l].chat_history
                 h2 == lobbies'[l].chat_history
                 kept == Len(h2) - 1
             IN /\ (size >= 3 /\ msg_len > MAX_CHAT_MESSAGE_LENGTH) =>
                     /\ outbox' = {ErrorMsg(a, MESSAGE_TOO_LONG)}
                     /\ lobbies' = lobbies
                /\ (size >= 3 + msg_len /\ msg_len <= MAX_CHAT_MESSAGE_LENGTH) =>
                     /\ Len(h2) = IF Len(h) < MAX_CHAT_HISTORY THEN Len(h) + 1
                                  ELSE MAX_CHAT_HISTORY
                     /\ h2[Len(h2)].message = <<n, msg_len>>
                     /\ h2[Len(h2)].sender = a
                     /\ \A i \in 1..kept : h2[i] = h[Len(h) - kept + i]
                     /\ \E m \in outbox' : m.kind = "CHAT_MESSAGE" /\ m.to = a
                /\ ~(size >= 3 + msg_len /\ msg_len <= MAX_CHAT_MESSAGE_LENGTH) =>
                     h2 = h
     /\ \A l \in DOMAIN lobbies' :
          /\ Len(lobbies'[l].chat_history) <= MAX_CHAT_HISTORY
          /\ \A i \in 1..Len(lobbies'[l].chat_history) :
               lobbies'[l].chat_history[i].message[2] <= MAX_CHAT_MESSAGE_LENGTH
     /\ event'.kind # CHAT =>
          \A l \in (DOMAIN lobbies) \cap (DOMAIN lobbies') :
             lobbies'[l].chat_history = lobbies[l].chat_history]_vars

\* a CHAT with a length field over the maximum has just been refused by a
\* lobby whose full history has dropped its oldest entry
C16_Witness ==
  /\ event.kind = CHAT
  /\ event.arg[2] > MAX_CHAT_MESSAGE_LENGTH
  /\ \E m \in outbox : m.kind = "ERROR" /\ m.code = MESSAGE_TOO_LONG
  /\ \E l \in DOMAIN lobbies :
       /\ Len(lobbies[l].chat_history) = MAX_CHAT_HISTORY
       /\ lobbies[l].chat_history[1].message[1] = 2

\* find_legal_moves(board, side) holds every legal cell of the board, and
\* cpu_select_move returns the first of its cells that has the maximum score
LegalAndFirstBest(board, side) ==
  \A moves \in {find_legal_moves(board, side)} :
    /\ {moves[i] : i \in 1..Len(moves)} =
         {c \in (0..(SIZE - 1)) \X (0..(SIZE - 1)) : is_legal_move(board, side, c[1], c[2])}
    /\ \A score \in {[i \in 1..Len(moves) |-> CpuScore(board, side, moves[i])]} :
       \A best \in {cpu_select_move(board, side)} :
         IF moves = <<>> THEN best = NoTuple
         ELSE \E k \in 1..Len(moves) :
                /\ best = moves[k]
                /\ \A j \in 1..Len(moves) : score[j] <= score[k]
                /\ \A j \in 1..(k - 1) : score[j] < score[k]

\* C17 (as the code has it): on every board a lobby gets and for each side,
\* find_legal_moves returns each legal cell once, in ascending order of the
\* tuple (x, y): ascending column x, then ascending row y within a column;
\* cpu_select_move returns the first cell of that order with the maximum score.
C17_TupleOrder ==
  [][\A l \in DOMAIN lobbies' : \A side \in {0, 1} :
       (l \notin DOMAIN lobbies \/ lobbies'[l].board # lobbies[l].board) =>
          /\ LegalAndFirstBest(lobbies'[l].board, side)
          /\ \A moves \in {find_legal_moves(lobbies'[l].board, side)} :
               \A i, j \in 1..Len(moves) :
                 i < j => \/ moves[i][1] < moves[j][1]
                          \/ (moves[i][1] = moves[j][1] /\ moves[i][2] < moves[j][2])]_vars

\* C17 (as stated): the same, in row-major order: ascending row y, then
\* ascending column x within a row.
C17_RowMajor ==
  \A l \in DOMAIN lobbies : \A side \in {0, 1} :
    /\ LegalAndFirstBest(lobbies[l].board, side)
    /\ \A moves \in {find_legal_moves(lobbies[l].board, side)} :
         \A i, j \in 1..Len(moves) :
           i < j => \/ moves[i][2] < moves[j][2]
                    \/ (moves[i][2] = moves[j][2] /\ moves[i][1] < moves[j][1])

\* on the board of a lobby the bot to move has two cells of the maximum
\* score, and the one returned first lies in a lower row than the other
C17_Witness ==
  \E l \in DOMAIN lobbies :
    /\ BotSide(lobbies[l])
    /\ \A moves \in {find_legal_moves(lobbies[l].board, lobbies[l].turn_index)} :
         \E i, j \in 1..Len(moves) :
           /\ i < j
           /\ moves[i] = cpu_select_move(lobbies[l].board, lobbies[l].turn_index)
           /\ CpuScore(lobbies[l].board, lobbies[l].turn_index, moves[i]) =
                CpuScore(lobbies[l].board, lobbies[l].turn_index, moves[j])
           /\ moves[i][2] > moves[j][2]

\* C18: every registered player has its id in the slots of at most one live
\* lobby, once, and the player's lobby_id names a lobby that has its id in a
\* slot.
C18_OneLobbyPerPlayer ==
  \A a \in DOMAIN players_by_address :
    LET id == players_by_address[a].player_id
        seated == {l \in DOMAIN lobbies : id \in Range(lobbies[l].players)}
    IN /\ Cardinality(seated) <= 1
       /\ \A l \in seated :
            /\ players_by_address[a].lobby_id = l
            /\ Cardinality({i \in 1..Len(lobbies[l].players) :
                              lobbies[l].players[i] = id}) = 1

\* C19: every live lobby has a slot held by the id of a human player that is
\* in the registry.
C19_LobbyHasHuman ==
  \A l \in DOMAIN lobbies :
    \E i \in 1..Len(lobbies[l].players) :
      /\ lobbies[l].players[i] \notin {CPU, AI}
      /\ lobbies[l].players[i] \in DOMAIN players_by_id

\* C20: a tick puts no piece of side 0 on the board of a lobby: every cell
\* that holds side 0 after the tick held side 0 before it, and a tick that
\* changes a board moves for side 1.
C20_BotPlaysSideOne ==
  [][event' = Ticked =>
       \A l \in (DOMAIN lobbies) \cap (DOMAIN lobbies') :
         lobbies'[l].board # lobbies[l].board =>
           /\ lobbies[l].turn_index = 1
           /\ \A x, y \in 0..(SIZE - 1) :
                lobbies'[l].board[y][x] = 0 => lobbies[l].board[y][x] = 0]_vars

\* C21: every step that creates a lobby or changes a lobby's status,
\* turn_index or board leaves it, when its status is playing, with a legal
\* move for the side turn_index names on the lobby's board; and a bot turn
\* that a tick executes finds a move (the policy does not return None) and
\* puts it on the board.
C21_MoverHasMove ==
  [][/\ \A l \in DOMAIN lobbies' :
          (/\ lobbies'[l].status = PLAYING
           /\ \/ l \notin DOMAIN lobbies
              \/ state_hash(lobbies'[l]) # state_hash(lobbies[l])) =>
             has_legal_move(lobbies'[l].board, lobbies'[l].turn_index)
     /\ \A l \in (DOMAIN lobbies) \cap (DOMAIN lobbies') :
          (/\ event' = Ticked
           /\ bot_to_move(lobbies[l])
           /\ lobbies[l].cpu_action_due # None
           /\ lobbies[l].cpu_action_due <= 0) =>
             /\ bot_select(lobbies[l]) # NoTuple
             /\ lobbies'[l].board # lobbies[l].board]_vars

\* a bot turn has just left the human without a legal move, so the turn is
\* the bot's again
C21_Witness ==
  /\ event = Ticked
  /\ \E l \in DOMAIN lobbies :
       /\ StateSent(l) # {}
       /\ BotSide(lobbies[l])
       /\ ~has_legal_move(lobbies[l].board, 1 - lobbies[l].turn_index)
       /\ has_legal_move(lobbies[l].board, lobbies[l].turn_index)

\* the number of cells of the board that hold a piece
Occupied(board) ==
  Cardinality({c \in (0..(SIZE - 1)) \X (0..(SIZE - 1)) : board[c[2]][c[1]] # EMPTY})

\* C22: a new lobby has the four pieces of the initial board; no step empties
\* a cell of a lobby's board; a step changes a board only by a PLACE or a
\* tick and then one more cell is occupied; so a lobby has had at most 60
\* moves, and a lobby whose board has had 60 moves is finished.
C22_MovesFillBoard ==
  [][/\ \A l \in (DOMAIN lobbies') \ (DOMAIN lobbies) :
          Occupied(lobbies'[l].board) = 4
     /\ \A l \in (DOMAIN lobbies) \cap (DOMAIN lobbies') :
          lobbies'[l].board # lobbies[l].board =>
            /\ event' = Ticked \/ event'.kind = PLACE
            /\ \A x, y \in 0..(SIZE - 1) :
                 lobbies[l].board[y][x] # EMPTY => lobbies'[l].board[y][x] # EMPTY
            /\ Occupied(lobbies'[l].board) = Occupied(lobbies[l].board) + 1
            /\ Occupied(lobbies'[l].board) - 4 <= 60
            /\ Occupied(lobbies'[l].board) - 4 = 60 => lobbies'[l].status = FINISHED]_vars

\* a lobby is finished with its board full: 60 moves were made
C22_Witness ==
  \E l \in DOMAIN lobbies :
    /\ lobbies[l].status = FINISHED
    /\ Occupied(lobbies[l].board) = SIZE * SIZE
    /\ StateSent(l) # {}

\* C23: each step is a whole handler or a whole tick, and the lobby lock is
\* held only inside it; after every step each started live lobby has its
\* current (status, turn_index, board) recorded as the last one broadcast, and
\* a step that starts a lobby or changes that triple sends every human
\* address of the lobby a GAME_STATE with the new status and turn_index.
C23_BroadcastCurrent ==
  [][\A l \in DOMAIN lobbies' :
       lobbies'[l].started =>
         /\ held'[LOBBY_LOCK] = Unlocked =>
              lobbies'[l].last_hash = state_hash(lobbies'[l])
         /\ (\/ l \notin DOMAIN lobbies
             \/ state_hash(lobbies'[l]) # state_hash(lobbies[l])) =>
              \A a \in Range(lobbies'[l].player_addresses) \ {NoAddr} :
                \E m \in outbox' :
                  /\ m.kind = "GAME_STATE"
                  /\ m.to = a
                  /\ m.lobby = l
                  /\ m.status = lobbies'[l].status
                  /\ m.turn = lobbies'[l].turn_index]_vars

\* a PLACE has just changed the game state of the sender's lobby, the new
\* state was sent to the sender and is the one recorded
C23_Witness ==
  \E a \in Addrs :
    /\ IsPlace(event, a)
    /\ LobbyOf(a) # None
    /\ \E m \in StateSent(LobbyOf(a)) :
         /\ m.to = a
         /\ m.turn = lobbies[LobbyOf(a)].turn_index
    /\ lobbies[LobbyOf(a)].board # create_initial_board
    /\ lobbies[LobbyOf(a)].last_hash = state_hash(lobbies[LobbyOf(a)])
    /\ held[LOBBY_LOCK] = Unlocked

====
